---- MODULE Spec2Model ----
(***************************************************************************)
(* Model of the employee time clock (clock/views.py, clock/ip_utils.py,    *)
(* clock/models.py, clock/admin.py, clock/admin_views.py).                 *)
(*                                                                         *)
(* The specifications share the variables:                                 *)
(*   Spec         the employee side: every clock request runs alone, start *)
(*                to end, as one step, while the location is reconfigured; *)
(*   SpecAdmin    clock requests and the administrator's operations on     *)
(*                time entries, each run alone as one step;                *)
(*   SpecConc     clock requests of several server workers overlap, one    *)
(*                step per database statement;                             *)
(*   SpecBulk     the same with the administrator's bulk closes;           *)
(*   SpecDelete   the administrator deletes rows;                          *)
(*   SpecEdit     the change form of a time entry;                         *)
(*   SpecClose    close_forgotten_entries over several days, in the time   *)
(*                zones a deployment may configure;                        *)
(*   SpecStatus   the status endpoint;                                     *)
(*   SpecLogin    browsers log in and out and send clock requests;         *)
(*   SpecIp, SpecClientIp, SpecDuration                                    *)
(*                is_ip_allowed, get_client_ip and duration_display        *)
(*                applied to inputs drawn from bounded sets.               *)
(*                                                                         *)
(* Text (addresses, allow-list entries) is a sequence of one-character     *)
(* strings, so that parsing is computed and not assumed.                   *)
(***************************************************************************)
EXTENDS Integers, Sequences, FiniteSets, TLC

VARIABLES
    entries,    \* table clock_timeentry: sequence of rows, in insertion order
    attempts,   \* table clock_failedclockattempt: sequence of rows
    locations,  \* table clock_location: pk -> row
    now,        \* the server clock, timezone.now()
    last,       \* the response to the request served last (Spec, SpecAdmin)
    workers,    \* SpecConc: worker -> the request it is serving and its locals
    vendor,     \* connection.vendor of the configured database
    time_zone,  \* settings.TIME_ZONE: its offset east of UTC, in ticks of now
    sessions,   \* browser -> request.user of its session (NoUser: anonymous)
    fn          \* SpecIp: the call of is_ip_allowed under evaluation

vars == <<entries, attempts, locations, now, last, workers, vendor, time_zone, sessions,
          fn>>

-----------------------------------------------------------------------------
(* Text *)

Digits == <<"0", "1", "2", "3", "4", "5", "6", "7", "8", "9">>

IsDigit(c) == \E i \in 1..10 : Digits[i] = c

DigitVal(c) == (CHOOSE i \in 1..10 : Digits[i] = c) - 1

\* str.isdigit() on a non-empty ASCII text
AllDigits(s) == s # <<>> /\ \A i \in 1..Len(s) : IsDigit(s[i])

\* int(s) for a text of decimal digits
RECURSIVE DecimalValue(_)
DecimalValue(s) ==
    IF s = <<>> THEN 0
    ELSE DecimalValue(SubSeq(s, 1, Len(s) - 1)) * 10 + DigitVal(s[Len(s)])

\* c in s
Contains(s, c) == \E i \in 1..Len(s) : s[i] = c

FirstIndex(s, c) == CHOOSE i \in 1..Len(s) : s[i] = c /\ \A j \in 1..(i - 1) : s[j] # c

\* s.split(sep)
RECURSIVE Split(_, _)
Split(s, sep) ==
    IF ~Contains(s, sep) THEN <<s>>
    ELSE LET i == FirstIndex(s, sep)
         IN  <<SubSeq(s, 1, i - 1)>> \o Split(SubSeq(s, i + 1, Len(s)), sep)

\* s.strip()
RECURSIVE Strip(_)
Strip(s) ==
    IF s = <<>> THEN s
    ELSE IF s[1] = " " \/ s[1] = "\n" THEN Strip(SubSeq(s, 2, Len(s)))
    ELSE IF s[Len(s)] = " " \/ s[Len(s)] = "\n" THEN Strip(SubSeq(s, 1, Len(s) - 1))
    ELSE s

-----------------------------------------------------------------------------
(* ipaddress: the IPv4 half of the standard library's parser.  The texts   *)
(* the model draws hold digits, dots, slashes and letters only, so none is *)
(* an IPv6 address and the IPv6 fallback always fails.                     *)

InvalidAddress == [ok |-> FALSE, o |-> <<0, 0, 0, 0>>]

\* IPv4Address._parse_octet
OctetOk(t) ==
    /\ AllDigits(t)
    /\ Len(t) <= 3
    /\ ~(Len(t) > 1 /\ t[1] = "0")
    /\ DecimalValue(t) <= 255

\* ipaddress.ip_address(text): ok is FALSE where Python raises ValueError
ip_address(s) ==
    IF Contains(s, "/") THEN InvalidAddress
    ELSE LET octets == Split(s, ".")
         IN  IF Len(octets) # 4 THEN InvalidAddress
             ELSE IF \E i \in 1..4 : ~OctetOk(octets[i]) THEN InvalidAddress
             ELSE [ok |-> TRUE, o |-> [i \in 1..4 |-> DecimalValue(octets[i])]]

\* the number of leading bits of octet i that a prefix of length p covers
MaskBits(p, i) ==
    LET b == p - 8 * (i - 1) IN IF b < 0 THEN 0 ELSE IF b > 8 THEN 8 ELSE b

\* octet & netmask octet
MaskOctet(v, p, i) == (v \div (2 ^ (8 - MaskBits(p, i)))) * (2 ^ (8 - MaskBits(p, i)))

InvalidNetwork == [ok |-> FALSE, o |-> <<0, 0, 0, 0>>, prefixlen |-> 0]

\* IPv4Network._prefix_from_prefix_string
PrefixOk(t) == AllDigits(t) /\ Len(t) <= 3 /\ DecimalValue(t) <= 32

\* ipaddress.ip_network(text, strict=False): host bits are masked off, not
\* rejected.  The mask is read as a prefix length.
ip_network(s) ==
    LET parts == Split(s, "/")
    IN  IF Len(parts) > 2 THEN InvalidNetwork
        ELSE LET addr == ip_address(parts[1])
                 plen == IF Len(parts) = 1 THEN 32
                         ELSE IF PrefixOk(parts[2]) THEN DecimalValue(parts[2])
                         ELSE -1
             IN  IF ~addr.ok \/ plen < 0 THEN InvalidNetwork
                 ELSE [ok |-> TRUE,
                       o |-> [i \in 1..4 |-> MaskOctet(addr.o[i], plen, i)],
                       prefixlen |-> plen]

\* _BaseNetwork.__contains__: other._ip & netmask == network_address
InNetwork(addr, network) ==
    \A i \in 1..4 : MaskOctet(addr.o[i], network.prefixlen, i) = network.o[i]

-----------------------------------------------------------------------------
(* ip_utils.is_ip_allowed *)

\* An element of Location.allowed_ips, a JSON value: a string or a number.
JsonStr(s) == [kind |-> "str", s |-> s, n |-> 0]
JsonNum(n) == [kind |-> "num", s |-> <<>>, n |-> n]

Returned(b) == [exc |-> "none", value |-> b]
Raised(e) == [exc |-> e, value |-> FALSE]

\* the for loop of is_ip_allowed from position i on
RECURSIVE ScanAllowed(_, _, _)
ScanAllowed(client_addr, allowed_list, i) ==
    IF i > Len(allowed_list) THEN Returned(FALSE)
    ELSE LET allowed == allowed_list[i]
         IN  \* '/' in allowed: TypeError for a value that is not iterable;
             \* only ValueError is caught
             IF allowed.kind # "str" THEN Raised("TypeError")
             ELSE IF Contains(allowed.s, "/")
             THEN LET network == ip_network(allowed.s)
                  IN  IF ~network.ok THEN ScanAllowed(client_addr, allowed_list, i + 1)
                      ELSE IF InNetwork(client_addr, network) THEN Returned(TRUE)
                      ELSE ScanAllowed(client_addr, allowed_list, i + 1)
             ELSE LET single == ip_address(allowed.s)
                  IN  IF ~single.ok THEN ScanAllowed(client_addr, allowed_list, i + 1)
                      ELSE IF client_addr.o = single.o THEN Returned(TRUE)
                      ELSE ScanAllowed(client_addr, allowed_list, i + 1)

is_ip_allowed(client_ip, allowed_list) ==
    IF allowed_list = <<>> THEN Returned(FALSE)
    ELSE LET client_addr == ip_address(client_ip)
         IN  IF ~client_addr.ok THEN Returned(FALSE)
             ELSE ScanAllowed(client_addr, allowed_list, 1)

-----------------------------------------------------------------------------
(* Sample texts *)

Ip_192_168_1_50 == <<"1", "9", "2", ".", "1", "6", "8", ".", "1", ".", "5", "0">>
Ip_10_0_0_1 == <<"1", "0", ".", "0", ".", "0", ".", "1">>
Ip_85_123_45_67 == <<"8", "5", ".", "1", "2", "3", ".", "4", "5", ".", "6", "7">>
Ip_192_168_1_300 == <<"1", "9", "2", ".", "1", "6", "8", ".", "1", ".", "3", "0", "0">>
Net_192_168_1_0_24 ==
    <<"1", "9", "2", ".", "1", "6", "8", ".", "1", ".", "0", "/", "2", "4">>
Net_192_168_1_77_24 ==
    <<"1", "9", "2", ".", "1", "6", "8", ".", "1", ".", "7", "7", "/", "2", "4">>
Net_192_168_1_48_30 ==
    <<"1", "9", "2", ".", "1", "6", "8", ".", "1", ".", "4", "8", "/", "3", "0">>
Net_10_0_0_0_8 == <<"1", "0", ".", "0", ".", "0", ".", "0", "/", "8">>
Net_192_168_1_0_33 ==
    <<"1", "9", "2", ".", "1", "6", "8", ".", "1", ".", "0", "/", "3", "3">>
Txt_local == <<"l", "o", "c", "a", "l">>

\* client addresses handed to is_ip_allowed
ClientTexts == {Ip_192_168_1_50, Ip_10_0_0_1, Ip_85_123_45_67, Ip_192_168_1_300}

\* values an administrator may have stored in Location.allowed_ips
AllowEntries ==
    {JsonStr(Net_192_168_1_0_24), JsonStr(Net_192_168_1_77_24),
     JsonStr(Net_192_168_1_48_30), JsonStr(Net_10_0_0_0_8),
     JsonStr(Net_192_168_1_0_33), JsonStr(Ip_85_123_45_67),
     JsonStr(Ip_192_168_1_300), JsonStr(Txt_local), JsonNum(85)}

MaxListLen == 2

RECURSIVE ListsUpTo(_, _)
ListsUpTo(S, n) ==
    IF n = 0 THEN {<<>>}
    ELSE LET shorter == ListsUpTo(S, n - 1)
         IN  shorter \cup {Append(l, x) : l \in {m \in shorter : Len(m) = n - 1}, x \in S}

AllowLists == ListsUpTo(AllowEntries, MaxListLen)

-----------------------------------------------------------------------------
(* ip_utils.get_client_ip and validate_location_access *)

\* a header that request.META does not hold
Absent == <<"<absent>">>

\* request.META: the three entries get_client_ip reads
Meta(x_real_ip, x_forwarded_for, remote_addr) ==
    [HTTP_X_REAL_IP |-> x_real_ip, HTTP_X_FORWARDED_FOR |-> x_forwarded_for,
     REMOTE_ADDR |-> remote_addr]

\* truthiness of request.META.get(name)
Truthy(h) == h # Absent /\ h # <<>>

Ip_0_0_0_0 == <<"0", ".", "0", ".", "0", ".", "0">>

\* X-Forwarded-For is read before X-Real-IP.
get_client_ip_forwarded_first(meta) ==
    LET x_real_ip == meta.HTTP_X_REAL_IP
        x_forwarded_for == meta.HTTP_X_FORWARDED_FOR
        first_ip == Strip(Split(x_forwarded_for, ",")[1])
    IN  IF Truthy(x_forwarded_for) /\ ip_address(first_ip).ok THEN first_ip
        ELSE IF Truthy(x_real_ip) /\ ip_address(x_real_ip).ok THEN x_real_ip
        ELSE IF meta.REMOTE_ADDR = Absent THEN Ip_0_0_0_0
        ELSE meta.REMOTE_ADDR

get_client_ip(meta) ==
    LET x_real_ip == meta.HTTP_X_REAL_IP
        x_forwarded_for == meta.HTTP_X_FORWARDED_FOR
        first_ip == Strip(Split(x_forwarded_for, ",")[1])
    IN  IF Truthy(x_real_ip) /\ ip_address(x_real_ip).ok THEN x_real_ip
        ELSE IF Truthy(x_forwarded_for) /\ ip_address(first_ip).ok THEN first_ip
        ELSE IF meta.REMOTE_ADDR = Absent THEN Ip_0_0_0_0
        ELSE meta.REMOTE_ADDR

\* validate_location_access admits every request.
validate_location_access_open(meta, location) ==
    [exc |-> "none", is_allowed |-> TRUE, client_ip |-> get_client_ip(meta)]

\* (is_allowed, client_ip, error_message), or the exception is_ip_allowed raised
validate_location_access(meta, location) ==
    LET client_ip == get_client_ip(meta)
        r == is_ip_allowed(client_ip, location.allowed_ips)
    IN  IF ~location.is_active
        THEN [exc |-> "none", is_allowed |-> FALSE, client_ip |-> client_ip]
        ELSE IF location.allowed_ips = <<>>
        THEN [exc |-> "none", is_allowed |-> FALSE, client_ip |-> client_ip]
        ELSE [exc |-> r.exc, is_allowed |-> r.value, client_ip |-> client_ip]

-----------------------------------------------------------------------------
(* models.py *)

Employees == {"ana", "ben"}
Admins == {"admin"}
NoUser == "<null>"

\* NULL in a DateTimeField
Null == 0 - 1
\* NULL in a GenericIPAddressField
NullIp == <<"<null>">>

\* the pk of the Location row ("we expect only one location")
LocationPk == 1
\* Location.objects.filter(is_active=True).first() found no row
NoLocation == 0

MaxTime == 1
\* clock ticks per calendar day
DayLen == 2
\* rows the tables clock_timeentry and clock_failedclockattempt hold together
MaxRows == 2

\* TimeEntry.is_open
is_open(e) == e.check_out = Null

\* positions of the rows of TimeEntry.objects.filter(user=user, check_out__isnull=True)
OpenRows(es, user) == {i \in 1..Len(es) : es[i].user = user /\ is_open(es[i])}

\* TimeEntry.has_open_entry
has_open_entry(es, user) == OpenRows(es, user) # {}

\* TimeEntry.get_open_entry: .first() under Meta.ordering = ['-check_in'].  The
\* rows with the latest check_in; which of several equal ones comes first is
\* the database's choice.
FirstOpenRows(es, user) ==
    {i \in OpenRows(es, user) : \A j \in OpenRows(es, user) : es[j].check_in <= es[i].check_in}

\* the next value of the AutoField
NextPk(es) ==
    IF es = <<>> THEN 1
    ELSE 1 + (CHOOSE m \in {es[i].id : i \in 1..Len(es)} :
                  \A i \in 1..Len(es) : es[i].id <= m)

\* The client address is not stored with the new entry.
NewEntryNoIp(es, user, location, check_in, check_in_ip, is_manual) ==
    [id |-> NextPk(es), user |-> user, location |-> location,
     check_in |-> check_in, check_out |-> Null,
     check_in_ip |-> NullIp, check_out_ip |-> NullIp,
     is_manual |-> is_manual, notes |-> <<>>, modified_by |-> NoUser]

\* TimeEntry.objects.create(user, location, check_in, check_in_ip, is_manual):
\* the fields not given take their defaults
NewEntry(es, user, location, check_in, check_in_ip, is_manual) ==
    [id |-> NextPk(es), user |-> user, location |-> location,
     check_in |-> check_in, check_out |-> Null,
     check_in_ip |-> check_in_ip, check_out_ip |-> NullIp,
     is_manual |-> is_manual, notes |-> <<>>, modified_by |-> NoUser]

\* FailedClockAttempt.objects.create(user, location, action, ip_address); the
\* timestamp column (auto_now_add) is left out of the row
NewAttempt(user, location, action, client_ip) ==
    [user |-> user, location |-> location, action |-> action, ip_address |-> client_ip]

\* request.POST.get('action') when the form carries no action
ActionNone == "<None>"

\* Model.save() of an instance read earlier: every column of the row with the
\* instance's pk is overwritten with the instance's value
SaveRow(es, obj) == [i \in 1..Len(es) |-> IF es[i].id = obj.id THEN obj ELSE es[i]]

-----------------------------------------------------------------------------
(* views.py: do_check_in and do_check_out run alone *)

Reply(success, error, exc) == [success |-> success, error |-> error, exc |-> exc]

\* do_check_in creates an entry without looking for an open one.
do_check_in_unguarded(es, user, location, client_ip, t) ==
    [entries |-> Append(es, NewEntry(es, user, location, t, client_ip, FALSE)),
     reply |-> Reply("ClockedIn", "", "none")]

do_check_in(es, user, location, client_ip, t) ==
    IF has_open_entry(es, user)
    THEN [entries |-> es, reply |-> Reply("", "AlreadyOpen", "none")]
    ELSE [entries |-> Append(es, NewEntry(es, user, location, t, client_ip, FALSE)),
          reply |-> Reply("ClockedIn", "", "none")]

\* get_open_entry leaves out the filter on the user.
get_open_entry_any_user(es, user) ==
    LET open == {i \in 1..Len(es) : is_open(es[i])}
    IN  IF open = {} THEN {0}
        ELSE {i \in open : \A j \in open : es[j].check_in <= es[i].check_in}

\* TimeEntry.get_open_entry: the positions .first() may return, 0 for None
get_open_entry(es, user) ==
    IF has_open_entry(es, user) THEN FirstOpenRows(es, user) ELSE {0}

\* do_check_out goes on without an open entry and fails on None.
do_check_out_unguarded(es, k, client_ip, t) ==
    IF k = 0
    THEN [entries |-> es, reply |-> Reply("", "", "AttributeError")]
    ELSE [entries |-> SaveRow(es, [es[k] EXCEPT !.check_out = t, !.check_out_ip = client_ip]),
          reply |-> Reply("ClockedOut", "", "none")]

\* do_check_out stores the time and forgets the address.
do_check_out_no_ip(es, k, client_ip, t) ==
    IF k = 0
    THEN [entries |-> es, reply |-> Reply("", "NoOpenEntry", "none")]
    ELSE [entries |-> SaveRow(es, [es[k] EXCEPT !.check_out = t]),
          reply |-> Reply("ClockedOut", "", "none")]

\* do_check_out where get_open_entry returned the row at position k (0: None)
do_check_out(es, k, client_ip, t) ==
    IF k = 0
    THEN [entries |-> es, reply |-> Reply("", "NoOpenEntry", "none")]
    ELSE [entries |-> SaveRow(es, [es[k] EXCEPT !.check_out = t, !.check_out_ip = client_ip]),
          reply |-> Reply("ClockedOut", "", "none")]

-----------------------------------------------------------------------------
(* State shared by the specifications *)

Vendors == {"sqlite", "mysql"}

Workers == {1, 2}

\* a worker between requests.  While it serves one: pc is the statement it
\* executes next, obj the TimeEntry instance it read, snapshot the rows its
\* transaction sees, stale whether another connection has committed since the
\* transaction began reading, overlapped the workers whose transactions were
\* open while its own was, rows the instances a bulk close of the
\* administrator has fetched and not yet saved.
NoObj == NewEntry(<<>>, NoUser, NoLocation, 0, NullIp, FALSE)
Idle == [pc |-> "idle", user |-> NoUser, action |-> ActionNone, client_ip |-> NullIp,
         location |-> NoLocation, obj |-> NoObj, snapshot |-> <<>>, stale |-> FALSE,
         overlapped |-> {}, rows |-> <<>>, reply |-> Reply("", "", "none")]

\* the response a request of `user` ends with: the messages rendered, or the
\* exception that left the view
Response(user, reply) ==
    [user |-> user, success |-> reply.success, error |-> reply.error, exc |-> reply.exc]

NoRequest == Response(NoUser, Reply("", "", "none"))

\* the browsers that send requests, and the sessions of a fresh installation
Clients == {"phone", "tablet"}
NoSessions == [c \in Clients |-> NoUser]

NoCall == [op |-> "none", client_ip |-> <<>>, allowed_list |-> <<>>,
           done |-> FALSE, result |-> Returned(FALSE)]

\* the Location row of a fresh installation: LOCAL_01, active, the workplace network
InitServer ==
    /\ entries = <<>>
    /\ attempts = <<>>
    /\ locations = [l \in {LocationPk} |->
                       [is_active |-> TRUE, allowed_ips |-> <<JsonStr(Net_192_168_1_0_24)>>]]
    /\ now = 0
    /\ last = NoRequest
    /\ workers = [w \in Workers |-> Idle]
    /\ vendor = "sqlite"
    /\ time_zone = 0
    /\ sessions = NoSessions

Init == InitServer /\ fn = NoCall

\* timezone.now() moves on
Tick ==
    /\ now < MaxTime
    /\ now' = now + 1
    /\ last' = NoRequest
    /\ UNCHANGED <<entries, attempts, locations, workers, vendor, time_zone, sessions, fn>>

-----------------------------------------------------------------------------
(* views.clock_view, a POST served alone *)

\* The first Location row is taken whether it is active or not.
ActiveLocationUnfiltered(locs) ==
    IF DOMAIN locs # {}
    THEN CHOOSE l \in DOMAIN locs : \A m \in DOMAIN locs : l <= m
    ELSE NoLocation

\* Location.objects.filter(is_active=True).first()
ActiveLocation(locs) ==
    IF \E l \in DOMAIN locs : locs[l].is_active
    THEN CHOOSE l \in DOMAIN locs :
             locs[l].is_active /\ \A m \in DOMAIN locs : locs[m].is_active => l <= m
    ELSE NoLocation

Ip_127_0_0_1 == <<"1", "2", "7", ".", "0", ".", "0", ".", "1">>
\* the request an employee sends at the workplace, behind the proxy
WorkplaceMeta == Meta(Ip_192_168_1_50, Absent, Ip_127_0_0_1)

\* the requests the model sends: that one, and one from outside the workplace
RequestMetas == {WorkplaceMeta, Meta(Absent, Absent, Ip_10_0_0_1)}

\* the action of the form: one of the two buttons, or none (which clock_view
\* treats like any other text: the branch "Invalid action")
Actions == {"in", "out", ActionNone}

\* allow-lists an administrator saves for the location
SavedAllowLists == {<<>>, <<JsonStr(Net_192_168_1_0_24)>>}

LocationRows == [is_active : BOOLEAN, allowed_ips : SavedAllowLists]

\* validate_location_access(request, location) for every request and every
\* Location row of the model
AccessByRequest ==
    [meta \in RequestMetas, location \in LocationRows |->
        validate_location_access(meta, location)]

\* the same function; the comparison makes TLC tabulate it once
Access == IF AccessByRequest = AccessByRequest THEN AccessByRequest ELSE AccessByRequest

ClockPost(user, action, meta) ==
    LET location == ActiveLocation(locations)
        answer(reply) == last' = Response(user, reply)
    IN  /\ UNCHANGED <<locations, now, workers, vendor, time_zone, sessions, fn>>
        /\ IF location = NoLocation
           THEN /\ answer(Reply("", "NoLocation", "none"))
                /\ UNCHANGED <<entries, attempts>>
           ELSE LET access == Access[meta, locations[location]]
                    client_ip == access.client_ip
                IN  IF access.exc # "none"
                    THEN /\ answer(Reply("", "", access.exc))
                         /\ UNCHANGED <<entries, attempts>>
                    ELSE IF ~access.is_allowed
                    THEN \* FailedClockAttempt.action is NOT NULL
                         IF action = ActionNone
                         THEN /\ answer(Reply("", "", "IntegrityError"))
                              /\ UNCHANGED <<entries, attempts>>
                         ELSE /\ Len(entries) + Len(attempts) < MaxRows
                              /\ attempts' = Append(attempts,
                                     NewAttempt(user, location, action, client_ip))
                              /\ answer(Reply("", "NotAtWorkplace", "none"))
                              /\ UNCHANGED entries
                    ELSE IF action = "in"
                    THEN LET r == do_check_in(entries, user, location, client_ip, now)
                         IN  /\ Len(r.entries) + Len(attempts) <= MaxRows
                             /\ entries' = r.entries
                             /\ answer(r.reply)
                             /\ UNCHANGED attempts
                    ELSE IF action = "out"
                    THEN \E k \in get_open_entry(entries, user) :
                             LET r == do_check_out(entries, k, client_ip, now)
                             IN  /\ entries' = r.entries
                                 /\ answer(r.reply)
                                 /\ UNCHANGED attempts
                    ELSE /\ answer(Reply("", "InvalidAction", "none"))
                         /\ UNCHANGED <<entries, attempts>>

-----------------------------------------------------------------------------
(* admin.py: TimeEntryAdmin, and admin_views.close_forgotten_entries *)

MinNotesLen == 10

Txt_ADMIN == <<"A", "D", "M", "I", "N">>
Txt_ADMIN_CLOSED == <<"A", "D", "M", "I", "N", "_", "C", "L", "O", "S", "E", "D">>
Txt_AUTO_CLOSED == <<"A", "U", "T", "O", "_", "C", "L", "O", "S", "E", "D">>
\* '\n[Cerrado por admin <date>]' and '\n[Auto-cerrado por admin el <date>]',
\* the date left out
Txt_Cerrado == <<"\n", "[", "C", "e", "r", "r", "a", "d", "o", "]">>
Txt_AutoCerrado == <<"\n", "[", "A", "u", "t", "o", "-", "c", "e", "r", "r", "a", "d", "o", "]">>

\* notes an administrator types: none, "fix" between blanks, "forgot out"
NoteShort == <<" ", " ", " ", " ", "f", "i", "x", " ", " ", " ", " ", " ">>
NoteLong == <<"f", "o", "r", "g", "o", "t", " ", "o", "u", "t">>
NoteSamples == {<<>>, NoteShort, NoteLong}

\* the submitted TimeEntryForm: the editable fields of the admin fieldsets
Form(user, check_in, check_out, is_manual, notes) ==
    [user |-> user, location |-> LocationPk, check_in |-> check_in,
     check_out |-> check_out, is_manual |-> is_manual, notes |-> notes]

\* TimeEntryForm.clean measures the notes as typed, blanks included.
TimeEntryFormValidUntrimmed(form, has_pk) ==
    (has_pk \/ form.is_manual) => Len(form.notes) >= MinNotesLen

\* TimeEntryForm.clean: TRUE when no ValidationError is raised.  has_pk is
\* self.instance.pk; the notes field has been stripped by the form field.
TimeEntryFormValid(form, has_pk) ==
    (has_pk \/ form.is_manual) => Len(Strip(form.notes)) >= MinNotesLen

\* TimeEntryAdmin.save_model with change = False on the instance the form built
SaveModelAdd(es, form) ==
    Append(es, [id |-> NextPk(es), user |-> form.user, location |-> form.location,
                check_in |-> form.check_in, check_out |-> form.check_out,
                check_in_ip |-> Txt_ADMIN,
                check_out_ip |-> IF form.check_out # Null THEN Txt_ADMIN ELSE NullIp,
                is_manual |-> TRUE, notes |-> Strip(form.notes), modified_by |-> NoUser])

\* TimeEntryAdmin.save_model with change = True on the row at position k
SaveModelChange(es, k, form, admin) ==
    SaveRow(es, [es[k] EXCEPT !.user = form.user, !.location = form.location,
                              !.check_in = form.check_in, !.check_out = form.check_out,
                              !.notes = Strip(form.notes),
                              !.modified_by = admin, !.is_manual = TRUE])

\* The clock counts ticks of UTC, the way aware datetimes are stored; zone is
\* an offset east of UTC.  .date() of a value read in that zone:
date(t, zone) == (t + zone) \div DayLen

\* timezone.make_aware(datetime.combine(entry.check_in.date(), datetime.max.time())):
\* check_in comes from the database in UTC, so .date() is its UTC date;
\* make_aware reads the last tick of that date in the configured time zone
end_of_day(t) == date(t, 0) * DayLen + (DayLen - 1) - time_zone

\* the body of the loops of mark_as_closed and close_forgotten_entries
ClosedByAdmin(e, ip_tag, note_tag, admin) ==
    [e EXCEPT !.check_out = end_of_day(e.check_in), !.check_out_ip = ip_tag,
              !.is_manual = TRUE, !.notes = e.notes \o note_tag, !.modified_by = admin]

\* the times an administrator enters in the form
FormTimes == {0, now}

AdminAdd(admin, form) ==
    /\ Len(entries) + Len(attempts) < MaxRows
    /\ IF TimeEntryFormValid(form, FALSE)
       THEN /\ entries' = SaveModelAdd(entries, form)
            /\ last' = Response(admin, Reply("Saved", "", "none"))
       ELSE /\ entries' = entries
            /\ last' = Response(admin, Reply("", "ValidationError", "none"))
    /\ UNCHANGED <<attempts, locations, now, workers, vendor, time_zone, sessions, fn>>

AdminChange(admin, k, form) ==
    /\ k \in 1..Len(entries)
    /\ IF TimeEntryFormValid(form, TRUE)
       THEN /\ entries' = SaveModelChange(entries, k, form, admin)
            /\ last' = Response(admin, Reply("Saved", "", "none"))
       ELSE /\ entries' = entries
            /\ last' = Response(admin, Reply("", "ValidationError", "none"))
    /\ UNCHANGED <<attempts, locations, now, workers, vendor, time_zone, sessions, fn>>

\* TimeEntryAdmin.mark_as_closed on the selected rows
MarkAsClosed(admin, selected) ==
    /\ selected # {}
    /\ entries' = [i \in 1..Len(entries) |->
                      IF i \in selected /\ is_open(entries[i])
                      THEN ClosedByAdmin(entries[i], Txt_ADMIN_CLOSED, Txt_Cerrado, admin)
                      ELSE entries[i]]
    /\ last' = Response(admin, Reply("Closed", "", "none"))
    /\ UNCHANGED <<attempts, locations, now, workers, vendor, time_zone, sessions, fn>>

\* today = timezone.now().date() is the UTC date of now; the lookup
\* check_in__date__lt=today takes the date of check_in in the configured zone.
\* check_out__isnull=True, check_in__date__lt=today
Forgotten(es, t) ==
    {i \in 1..Len(es) : is_open(es[i]) /\ date(es[i].check_in, time_zone) < date(t, 0)}

\* close_forgotten_entries, POST
CloseForgotten(admin) ==
    /\ entries' = [i \in 1..Len(entries) |->
                      IF i \in Forgotten(entries, now)
                      THEN ClosedByAdmin(entries[i], Txt_AUTO_CLOSED, Txt_AutoCerrado, admin)
                      ELSE entries[i]]
    /\ last' = Response(admin, Reply("Closed", "", "none"))
    /\ UNCHANGED <<attempts, locations, now, workers, vendor, time_zone, sessions, fn>>

\* LocationAdmin: the change form of the Location row saved
LocationSave(admin, l, is_active, allowed_ips) ==
    /\ locations' = [locations EXCEPT ![l] = [is_active |-> is_active,
                                               allowed_ips |-> allowed_ips]]
    /\ last' = Response(admin, Reply("Saved", "", "none"))
    /\ UNCHANGED <<entries, attempts, now, workers, vendor, time_zone, sessions, fn>>

Next ==
    \/ Tick
    \/ \E user \in Employees, action \in Actions, meta \in RequestMetas :
           ClockPost(user, action, meta)
    \/ \E admin \in Admins, l \in DOMAIN locations, is_active \in BOOLEAN,
          allowed_ips \in SavedAllowLists :
           LocationSave(admin, l, is_active, allowed_ips)

Spec == Init /\ [][Next]_vars

NextAdmin ==
    \/ Tick
    \/ \E user \in Employees, action \in {"in", "out"} :
           ClockPost(user, action, WorkplaceMeta)
    \/ \E admin \in Admins, user \in Employees, check_out \in FormTimes \cup {Null},
          is_manual \in BOOLEAN, notes \in {<<>>, NoteLong} :
           AdminAdd(admin, Form(user, now, check_out, is_manual, notes))
    \/ \E admin \in Admins, k \in 1..Len(entries), check_out \in FormTimes \cup {Null},
          notes \in NoteSamples :
           AdminChange(admin, k, Form(entries[k].user, entries[k].check_in, check_out,
                                      TRUE, notes))
    \/ \E admin \in Admins, selected \in SUBSET (1..Len(entries)) :
           MarkAsClosed(admin, selected)
    \/ \E admin \in Admins : CloseForgotten(admin)

SpecAdmin == Init /\ [][NextAdmin]_vars

-----------------------------------------------------------------------------
(* The employee side, each request served alone (Spec) *)

\* the request reaches do_check_in / do_check_out: a location is active and
\* validate_location_access admits the client
Admitted(meta) ==
    /\ ActiveLocation(locations) # NoLocation
    /\ Access[meta, locations[ActiveLocation(locations)]].exc = "none"
    /\ Access[meta, locations[ActiveLocation(locations)]].is_allowed

\* C4: an admitted check-in by an employee who has an open entry answers with
\* the already-open error and leaves both tables as they were; and the request
\* served right after a successful check-in, when it is a check-in by the same
\* employee, succeeds in nothing and creates nothing.
C4_CheckInWhileOpenFails ==
    [][\A user \in Employees, meta \in RequestMetas :
          /\ (last'.user = user /\ Admitted(meta) /\ has_open_entry(entries, user)
                 /\ ClockPost(user, "in", meta))
                => /\ entries' = entries
                   /\ attempts' = attempts
                   /\ last' = Response(user, Reply("", "AlreadyOpen", "none"))
          /\ (last'.user = user /\ last.user = user /\ last.success = "ClockedIn"
                 /\ ClockPost(user, "in", meta))
                => /\ entries' = entries
                   /\ last'.success = ""]_vars

\* an employee was told that the entry is already open, and has one
C4_Witness ==
    /\ last.error = "AlreadyOpen"
    /\ has_open_entry(entries, last.user)

\* C5: an admitted check-in by an employee without an open entry appends one
\* entry: that employee, the active location, check-in now from the client's
\* address, no check-out, not manual; the rows before it are unchanged and the
\* employee then has exactly one open entry.
C5_CheckInCreatesOneEntry ==
    [][\A user \in Employees, meta \in RequestMetas :
          (last'.user = user /\ Admitted(meta) /\ ~has_open_entry(entries, user)
              /\ ClockPost(user, "in", meta))
             => /\ Len(entries') = Len(entries) + 1
                /\ SubSeq(entries', 1, Len(entries)) = entries
                /\ LET e == entries'[Len(entries')]
                   IN  /\ e.user = user
                       /\ e.location = ActiveLocation(locations)
                       /\ e.check_in = now
                       /\ e.check_in_ip = get_client_ip(meta)
                       /\ e.check_out = Null
                       /\ e.check_out_ip = NullIp
                       /\ e.is_manual = FALSE
                       /\ \A i \in 1..Len(entries) : entries[i].id # e.id
                /\ Cardinality(OpenRows(entries', user)) = 1
                /\ last' = Response(user, Reply("ClockedIn", "", "none"))]_vars

\* an employee has just checked in while the table already held an entry
C5_Witness ==
    /\ last.success = "ClockedIn"
    /\ Len(entries) >= 2
    /\ entries[Len(entries)].user = last.user
    /\ is_open(entries[Len(entries)])

\* C6: an admitted check-out by an employee without an open entry answers with
\* the no-open-entry error and leaves both tables as they were.
C6_CheckOutWithoutOpenFails ==
    [][\A user \in Employees, meta \in RequestMetas :
          (last'.user = user /\ Admitted(meta) /\ ~has_open_entry(entries, user)
              /\ ClockPost(user, "out", meta))
             => /\ entries' = entries
                /\ attempts' = attempts
                /\ last' = Response(user, Reply("", "NoOpenEntry", "none"))]_vars

\* an employee with entries, none of them open, was told there is no open entry
C6_Witness ==
    /\ last.error = "NoOpenEntry"
    /\ \E i \in 1..Len(entries) : entries[i].user = last.user
    /\ ~has_open_entry(entries, last.user)

\* C7: a successful check-out writes check_out = now and check_out_ip = the
\* client's address into one open entry of the employee; every other column of
\* that row, every other row and the attempts are unchanged, and no row is added.
C7_CheckOutOnlySetsCheckOut ==
    [][\A user \in Employees, meta \in RequestMetas :
          (last'.user = user /\ Admitted(meta) /\ has_open_entry(entries, user)
              /\ ClockPost(user, "out", meta))
             => /\ \E k \in OpenRows(entries, user) :
                       entries' = [entries EXCEPT ![k].check_out = now,
                                                  ![k].check_out_ip = get_client_ip(meta)]
                /\ attempts' = attempts
                /\ last' = Response(user, Reply("ClockedOut", "", "none"))]_vars

\* an employee has just checked out while another entry exists beside the closed one
C7_Witness ==
    /\ last.success = "ClockedOut"
    /\ Len(entries) >= 2
    /\ \E i \in 1..Len(entries) :
           /\ entries[i].user = last.user
           /\ entries[i].check_out = now
           /\ entries[i].check_out_ip = Ip_192_168_1_50

\* C10: a clock request that validate_location_access does not admit appends
\* one FailedClockAttempt with the employee, the location, the action and the
\* client's address, and leaves the time entries as they were.
C10_RejectedRequestIsRecorded ==
    [][\A user \in Employees, action \in Actions, meta \in RequestMetas :
          (/\ last'.user = user
           /\ ClockPost(user, action, meta)
           /\ ActiveLocation(locations) # NoLocation
           /\ ~Admitted(meta))
             => /\ attempts' = Append(attempts,
                       NewAttempt(user, ActiveLocation(locations), action, get_client_ip(meta)))
                /\ entries' = entries]_vars

-----------------------------------------------------------------------------
(* is_ip_allowed on drawn inputs (SpecIp) *)

InitIp ==
    /\ InitServer
    /\ \E client_ip \in ClientTexts, allowed_list \in AllowLists :
           fn = [op |-> "is_ip_allowed", client_ip |-> client_ip,
                 allowed_list |-> allowed_list, done |-> FALSE, result |-> Returned(FALSE)]

\* the call returns or raises
EvalIsIpAllowed ==
    /\ fn.op = "is_ip_allowed"
    /\ ~fn.done
    /\ fn' = [fn EXCEPT !.done = TRUE,
                        !.result = is_ip_allowed(fn.client_ip, fn.allowed_list)]
    /\ UNCHANGED <<entries, attempts, locations, now, last, workers, vendor, time_zone, sessions>>

NextIp == EvalIsIpAllowed

SpecIp == InitIp /\ [][NextIp]_vars

\* a <= b for addresses as octet tuples
AddrLeq(a, b) ==
    \/ a = b
    \/ \E i \in 1..4 : a[i] < b[i] /\ \A j \in 1..(i - 1) : a[j] = b[j]

\* the last address of a block
BroadcastOf(network) ==
    [i \in 1..4 |-> network.o[i] + 2 ^ (8 - MaskBits(network.prefixlen, i)) - 1]

\* the entry is a literal address and the client's address equals it
EqualsLiteral(client_addr, entry) ==
    /\ entry.kind = "str"
    /\ ~Contains(entry.s, "/")
    /\ ip_address(entry.s).ok
    /\ ip_address(entry.s).o = client_addr.o

\* the entry is a CIDR block and the client's address lies between its first
\* and its last address
InsideBlock(client_addr, entry) ==
    /\ entry.kind = "str"
    /\ Contains(entry.s, "/")
    /\ ip_network(entry.s).ok
    /\ AddrLeq(ip_network(entry.s).o, client_addr.o)
    /\ AddrLeq(client_addr.o, BroadcastOf(ip_network(entry.s)))

MatchesSome(client_ip, allowed_list) ==
    /\ ip_address(client_ip).ok
    /\ \E i \in 1..Len(allowed_list) :
           \/ EqualsLiteral(ip_address(client_ip), allowed_list[i])
           \/ InsideBlock(ip_address(client_ip), allowed_list[i])

\* C8: is_ip_allowed returns, and returns true exactly when the client's
\* address equals a literal address of the list or lies inside a CIDR block of
\* the list (so false for the empty list, for no match, for an invalid client).
C8_AllowedIffMatch ==
    fn.done => fn.result = Returned(MatchesSome(fn.client_ip, fn.allowed_list))

\* an entry neither ip_address nor ip_network accepts
Malformed(entry) ==
    \/ entry.kind # "str"
    \/ Contains(entry.s, "/") /\ ~ip_network(entry.s).ok
    \/ ~Contains(entry.s, "/") /\ ~ip_address(entry.s).ok

WithoutMalformed(allowed_list) == SelectSeq(allowed_list, LAMBDA entry : ~Malformed(entry))

\* C9: is_ip_allowed returns normally for every client and every list, with
\* the result it gives on the list without its malformed entries.
C9_MalformedEntriesSkipped ==
    fn.done => /\ fn.result.exc = "none"
               /\ fn.result = is_ip_allowed(fn.client_ip, WithoutMalformed(fn.allowed_list))

\* the lists all of whose entries are JSON strings
TextList(allowed_list) == \A i \in 1..Len(allowed_list) : allowed_list[i].kind = "str"

\* On lists of strings both statements hold.
TextListsAllowedIffMatch ==
    (fn.done /\ TextList(fn.allowed_list))
        => fn.result = Returned(MatchesSome(fn.client_ip, fn.allowed_list))

TextListsMalformedSkipped ==
    (fn.done /\ TextList(fn.allowed_list))
        => fn.result = is_ip_allowed(fn.client_ip, WithoutMalformed(fn.allowed_list))

-----------------------------------------------------------------------------
(* Overlapping clock requests (SpecConc).  Each worker serves one request   *)
(* at a time on its own database connection; a step is one statement.       *)
(* do_check_in and do_check_out run inside transaction.atomic: the first    *)
(* query opens the transaction, the write is followed by the commit.  What   *)
(* a transaction sees of the others depends on the database: under sqlite   *)
(* it reads the snapshot of its first query and its write fails with        *)
(* OperationalError ("database is locked") once another connection has      *)
(* committed since; elsewhere Django runs READ COMMITTED, every query reads  *)
(* the latest committed rows and the write goes through.                    *)

\* the database is chosen by the deployment's settings
InitConc ==
    /\ entries = <<>>
    /\ attempts = <<>>
    /\ locations = [l \in {LocationPk} |->
                       [is_active |-> TRUE, allowed_ips |-> <<JsonStr(Net_192_168_1_0_24)>>]]
    /\ now = 0
    /\ last = NoRequest
    /\ workers = [w \in Workers |-> Idle]
    /\ vendor \in Vendors
    /\ time_zone = 0
    /\ sessions = NoSessions
    /\ fn = NoCall

InTransaction(w) == workers[w].pc \in {"check_in_get", "check_in_create", "check_out_save"}

\* worker w opens its transaction: it now overlaps the open ones
Opened(ws, w) ==
    [v \in Workers |->
        IF v = w
        THEN [ws[v] EXCEPT !.overlapped = @ \cup {x \in Workers \ {w} : InTransaction(x)}]
        ELSE IF InTransaction(v) THEN [ws[v] EXCEPT !.overlapped = @ \cup {w}]
        ELSE ws[v]]

\* worker w has committed a write: the open transactions of the others are stale
Committed(ws, w) ==
    [v \in Workers |-> IF v # w /\ InTransaction(v) THEN [ws[v] EXCEPT !.stale = TRUE] ELSE ws[v]]

Finish(rec, reply) == [rec EXCEPT !.pc = "done", !.reply = reply, !.snapshot = <<>>]

\* clock_view up to the call of do_check_in / do_check_out
Receive(w, user, action, meta) ==
    LET location == ActiveLocation(locations)
        req == [Idle EXCEPT !.user = user, !.action = action, !.location = location]
        finish(reply) == workers' = [workers EXCEPT ![w] = Finish(req, reply)]
    IN  /\ workers[w].pc \in {"idle", "done"}
        /\ UNCHANGED <<entries, locations, now, last, vendor, time_zone, sessions, fn>>
        /\ IF location = NoLocation
           THEN /\ finish(Reply("", "NoLocation", "none"))
                /\ UNCHANGED attempts
           ELSE LET access == Access[meta, locations[location]]
                    client_ip == access.client_ip
                IN  IF access.exc # "none"
                    THEN /\ finish(Reply("", "", access.exc))
                         /\ UNCHANGED attempts
                    ELSE IF ~access.is_allowed
                    THEN IF action = ActionNone
                         THEN /\ finish(Reply("", "", "IntegrityError"))
                              /\ UNCHANGED attempts
                         ELSE /\ Len(entries) + Len(attempts) < MaxRows
                              /\ attempts' = Append(attempts,
                                     NewAttempt(user, location, action, client_ip))
                              /\ workers' = Committed(
                                     [workers EXCEPT ![w] = Finish(
                                         [req EXCEPT !.client_ip = client_ip],
                                         Reply("", "NotAtWorkplace", "none"))], w)
                    ELSE IF action \in {"in", "out"}
                    THEN /\ workers' = [workers EXCEPT ![w] =
                                [req EXCEPT !.client_ip = client_ip,
                                            !.pc = IF action = "in" THEN "check_in_has"
                                                   ELSE "check_out_get"]]
                         /\ UNCHANGED attempts
                    ELSE /\ finish(Reply("", "InvalidAction", "none"))
                         /\ UNCHANGED attempts

\* do_check_in: TimeEntry.has_open_entry(user), the transaction's first query
CheckInHas(w) ==
    /\ workers[w].pc = "check_in_has"
    /\ workers' = Opened(
           [workers EXCEPT ![w] =
               [@ EXCEPT !.pc = IF has_open_entry(entries, workers[w].user) THEN "check_in_get"
                                ELSE "check_in_create",
                         !.snapshot = IF vendor = "sqlite" THEN entries ELSE <<>>]], w)
    /\ UNCHANGED <<entries, attempts, locations, now, last, vendor, time_zone, sessions, fn>>

\* the rows the transaction of w reads
Visible(w) == IF vendor = "sqlite" THEN workers[w].snapshot ELSE entries

\* do_check_in: get_open_entry(user) and open_entry.check_in.strftime
CheckInGet(w) ==
    /\ workers[w].pc = "check_in_get"
    /\ workers' = [workers EXCEPT ![w] =
           Finish(@, IF has_open_entry(Visible(w), @.user)
                     THEN Reply("", "AlreadyOpen", "none")
                     ELSE Reply("", "", "AttributeError"))]
    /\ UNCHANGED <<entries, attempts, locations, now, last, vendor, time_zone, sessions, fn>>

\* do_check_in: TimeEntry.objects.create and the commit
CheckInCreate(w) ==
    /\ workers[w].pc = "check_in_create"
    /\ IF vendor = "sqlite" /\ workers[w].stale
       THEN /\ workers' = [workers EXCEPT ![w] = Finish(@, Reply("", "", "OperationalError"))]
            /\ UNCHANGED entries
       ELSE /\ Len(entries) + Len(attempts) < MaxRows
            /\ entries' = Append(entries,
                   NewEntry(entries, workers[w].user, workers[w].location, now,
                            workers[w].client_ip, FALSE))
            /\ workers' = Committed(
                   [workers EXCEPT ![w] =
                       Finish([@ EXCEPT !.obj = entries'[Len(entries')]],
                              Reply("ClockedIn", "", "none"))], w)
    /\ UNCHANGED <<attempts, locations, now, last, vendor, time_zone, sessions, fn>>

\* do_check_out: get_open_entry(user), the transaction's first query
CheckOutGet(w) ==
    /\ workers[w].pc = "check_out_get"
    /\ \E k \in get_open_entry(entries, workers[w].user) :
           IF k = 0
           THEN workers' = [workers EXCEPT ![w] = Finish(@, Reply("", "NoOpenEntry", "none"))]
           ELSE workers' = Opened(
                    [workers EXCEPT ![w] = [@ EXCEPT !.pc = "check_out_save",
                                                     !.obj = entries[k]]], w)
    /\ UNCHANGED <<entries, attempts, locations, now, last, vendor, time_zone, sessions, fn>>

\* do_check_out: open_entry.save() and the commit
CheckOutSave(w) ==
    /\ workers[w].pc = "check_out_save"
    /\ IF vendor = "sqlite" /\ workers[w].stale
       THEN /\ workers' = [workers EXCEPT ![w] = Finish(@, Reply("", "", "OperationalError"))]
            /\ UNCHANGED entries
       ELSE LET obj == [workers[w].obj EXCEPT !.check_out = now,
                                              !.check_out_ip = workers[w].client_ip]
            IN  /\ entries' = SaveRow(entries, obj)
                /\ workers' = Committed(
                       [workers EXCEPT ![w] =
                           Finish([@ EXCEPT !.obj = obj], Reply("ClockedOut", "", "none"))], w)
    /\ UNCHANGED <<attempts, locations, now, last, vendor, time_zone, sessions, fn>>

NextConc ==
    \/ Tick
    \/ \E w \in Workers, user \in Employees, action \in {"in", "out"} :
           Receive(w, user, action, WorkplaceMeta)
    \/ \E w \in Workers : CheckInHas(w)
    \/ \E w \in Workers : CheckInGet(w)
    \/ \E w \in Workers : CheckInCreate(w)
    \/ \E w \in Workers : CheckOutGet(w)
    \/ \E w \in Workers : CheckOutSave(w)

SpecConc == InitConc /\ [][NextConc]_vars

\* workers v and w have both answered requests of one employee for `action`,
\* and their transactions were open at the same time
OverlappedPair(v, w, action) ==
    /\ v # w
    /\ workers[v].pc = "done" /\ workers[w].pc = "done"
    /\ workers[v].user = workers[w].user
    /\ workers[v].action = action /\ workers[w].action = action
    /\ w \in workers[v].overlapped

\* C2: of two overlapping check-ins of one employee at most one creates an entry.
C2_OverlappingCheckInsCreateOnce ==
    \A v, w \in Workers :
        OverlappedPair(v, w, "in")
            => ~(workers[v].reply.success = "ClockedIn" /\ workers[w].reply.success = "ClockedIn")

\* C3: of two overlapping check-outs of one employee that found the same open
\* entry, at most one reports success, the other is answered with the
\* no-open-entry error, and the entry holds what the successful one wrote.
C3_OverlappingCheckOutsCloseOnce ==
    \A v, w \in Workers :
        (OverlappedPair(v, w, "out") /\ workers[v].obj.id = workers[w].obj.id)
            => /\ ~(workers[v].reply.success = "ClockedOut"
                    /\ workers[w].reply.success = "ClockedOut")
               /\ workers[v].reply.success = "" => workers[v].reply.error = "NoOpenEntry"

-----------------------------------------------------------------------------
(* Clock requests and the administrator's operations (SpecAdmin) *)

\* C1: every employee has at most one entry without check-out.
C1_AtMostOneOpenEntry ==
    \A user \in Employees : Cardinality(OpenRows(entries, user)) <= 1

-----------------------------------------------------------------------------
(* Further properties of the employee side (Spec) *)

\* C11: a clock request changes the time entries (a check-in creating one, a
\* check-out closing one) only when a location is active and the request's
\* client address equals a literal or lies inside a block of that location's
\* allow-list as it is when the request is served.
C11_OnlyAdmittedRequestsWrite ==
    [][entries' # entries
          => \A user \in Employees, action \in Actions, meta \in RequestMetas :
                (last'.user = user /\ ClockPost(user, action, meta))
                   => /\ ActiveLocation(locations) # NoLocation
                      /\ locations[ActiveLocation(locations)].is_active
                      /\ MatchesSome(get_client_ip(meta),
                                     locations[ActiveLocation(locations)].allowed_ips)]_vars

\* an employee checked in at the workplace and was turned away elsewhere
C11_Witness ==
    /\ last.success = "ClockedOut"
    /\ attempts # <<>>
    /\ \E i \in 1..Len(entries) : entries[i].user = last.user /\ ~is_open(entries[i])

-----------------------------------------------------------------------------
(* The admin's delete views (SpecDelete).  TimeEntryAdmin, LocationAdmin and  *)
(* FailedClockAttemptAdmin leave has_delete_permission as ModelAdmin defines  *)
(* it, so a superuser has the delete view and the delete_selected action of   *)
(* each.                                                                      *)

\* the largest pk the model lets the table clock_timeentry reach
MaxPk == 3

\* the rows of a table without the one at position k
WithoutRow(rows, k) == [i \in 1..(Len(rows) - 1) |-> IF i < k THEN rows[i] ELSE rows[i + 1]]

\* FailedClockAttemptAdmin: the attempt at position k deleted
AttemptDelete(admin, k) ==
    /\ k \in 1..Len(attempts)
    /\ attempts' = WithoutRow(attempts, k)
    /\ last' = Response(admin, Reply("Deleted", "", "none"))
    /\ UNCHANGED <<entries, locations, now, workers, vendor, time_zone, sessions, fn>>

\* TimeEntryAdmin: the entry at position k deleted.  The administrator of the
\* model deletes a row older than the newest one, so that NextPk stays the
\* next value of the table's sequence.
TimeEntryDelete(admin, k) ==
    /\ k \in 1..Len(entries)
    /\ NextPk(entries) <= MaxPk
    /\ entries[k].id + 1 # NextPk(entries)
    /\ entries' = WithoutRow(entries, k)
    /\ last' = Response(admin, Reply("Deleted", "", "none"))
    /\ UNCHANGED <<attempts, locations, now, workers, vendor, time_zone, sessions, fn>>

\* LocationAdmin: the Location l deleted.  TimeEntry.location is PROTECT: with
\* an entry at the location the admin refuses; FailedClockAttempt.location is
\* SET_NULL.
LocationDelete(admin, l) ==
    /\ l \in DOMAIN locations
    /\ IF \E i \in 1..Len(entries) : entries[i].location = l
       THEN /\ last' = Response(admin, Reply("", "ProtectedError", "none"))
            /\ UNCHANGED <<attempts, locations>>
       ELSE /\ locations' = [m \in DOMAIN locations \ {l} |-> locations[m]]
            /\ attempts' = [i \in 1..Len(attempts) |->
                               IF attempts[i].location = l
                               THEN [attempts[i] EXCEPT !.location = NoLocation]
                               ELSE attempts[i]]
            /\ last' = Response(admin, Reply("Deleted", "", "none"))
    /\ UNCHANGED <<entries, now, workers, vendor, time_zone, sessions, fn>>

NextDelete ==
    \/ Tick
    \/ \E user \in Employees, action \in {"in", "out"}, meta \in RequestMetas :
           ClockPost(user, action, meta)
    \/ \E admin \in Admins, k \in 1..Len(attempts) : AttemptDelete(admin, k)
    \/ \E admin \in Admins, k \in 1..Len(entries) : TimeEntryDelete(admin, k)
    \/ \E admin \in Admins, l \in DOMAIN locations : LocationDelete(admin, l)

SpecDelete == Init /\ [][NextDelete]_vars

\* C12: the attempts recorded so far stay as they are, in their place, in
\* every step: the table only grows at its end.
C12_AttemptsAppendOnly ==
    [][/\ Len(attempts') >= Len(attempts)
       /\ \A i \in 1..Len(attempts) : attempts'[i] = attempts[i]]_vars

\* C13: an entry of the table is in the table after every step.
C13_EntriesNeverDeleted ==
    [][\A i \in 1..Len(entries) :
          \E j \in 1..Len(entries') : entries'[j].id = entries[i].id]_vars

-----------------------------------------------------------------------------
(* Closed entries *)

\* C14: an entry with both timestamps is the same row after every step that
\* is not an administrative edit (SpecConc has clock requests only).
C14_ClosedEntriesUnchanged ==
    [][\A i \in 1..Len(entries) :
          entries[i].check_out # Null
             => /\ Len(entries') >= i
                /\ entries'[i] = entries[i]]_vars

\* Served one at a time, the clock requests and both bulk-close actions leave
\* the entries with both timestamps as they are (SpecAdmin).
ClosedEntriesUnchangedServedAlone ==
    [][(\/ \E user \in Employees, action \in Actions, meta \in RequestMetas :
              ClockPost(user, action, meta)
        \/ \E admin \in Admins, selected \in SUBSET (1..Len(entries)) :
              MarkAsClosed(admin, selected)
        \/ \E admin \in Admins : CloseForgotten(admin))
          => \A i \in 1..Len(entries) :
                entries[i].check_out # Null => entries'[i] = entries[i]]_vars

-----------------------------------------------------------------------------
(* The change form of TimeEntryAdmin (SpecEdit) *)

\* tables the clock requests of the first tick leave behind: ana checked in
\* and out, and then ben checked in
TableAnaOut ==
    do_check_out(do_check_in(<<>>, "ana", LocationPk, Ip_192_168_1_50, 0).entries,
                 1, Ip_192_168_1_50, 0).entries
TableAnaOutBenIn == do_check_in(TableAnaOut, "ben", LocationPk, Ip_192_168_1_50, 0).entries

InitEdit ==
    /\ entries \in {TableAnaOut, TableAnaOutBenIn}
    /\ attempts = <<>>
    /\ locations = [l \in {LocationPk} |->
                       [is_active |-> TRUE, allowed_ips |-> <<JsonStr(Net_192_168_1_0_24)>>]]
    /\ now = 0
    /\ last = NoRequest
    /\ workers = [w \in Workers |-> Idle]
    /\ vendor = "sqlite"
    /\ time_zone = 0
    /\ sessions = NoSessions
    /\ fn = NoCall

NextEdit ==
    \/ Tick
    \/ \E admin \in Admins, k \in 1..Len(entries), user \in Employees,
          is_manual \in BOOLEAN, notes \in NoteSamples :
         \E check_out \in {Null, entries[k].check_out, now} :
           AdminChange(admin, k, Form(user, entries[k].check_in, check_out,
                                      is_manual, notes))

SpecEdit == InitEdit /\ [][NextEdit]_vars

\* the characters from the first to the last one that is not a blank
TrimmedLen(text) ==
    LET inked == {i \in 1..Len(text) : text[i] # " "}
    IN  IF inked = {} THEN 0
        ELSE (CHOOSE i \in inked : \A j \in inked : j <= i)
             - (CHOOSE i \in inked : \A j \in inked : i <= j) + 1

\* C15: the change form of an entry submitted with notes of fewer than 10
\* characters after trimming is rejected and the entries stay as they are,
\* whatever the other fields; with 10 or more the edit is saved with the
\* trimmed notes.
C15_EditNeedsNote ==
    [][\A admin \in Admins, k \in 1..Len(entries), user \in Employees,
          check_out \in {Null} \cup 0..MaxTime, is_manual \in BOOLEAN, notes \in NoteSamples :
          AdminChange(admin, k, Form(user, entries[k].check_in, check_out,
                                     is_manual, notes))
             => IF TrimmedLen(notes) < 10
                THEN /\ entries' = entries
                     /\ last' = Response(admin, Reply("", "ValidationError", "none"))
                ELSE /\ last' = Response(admin, Reply("Saved", "", "none"))
                     /\ TrimmedLen(entries'[k].notes) >= 10
                     /\ entries'[k].check_out = check_out]_vars

\* an edit with "fix" between blanks was turned down, an edit with a note was
\* saved before
C15_Witness ==
    /\ last.error = "ValidationError"
    /\ \E i \in 1..Len(entries) : entries[i].is_manual /\ entries[i].notes = NoteLong

-----------------------------------------------------------------------------
(* TimeEntry.duration_minutes and duration_display on drawn timestamps       *)
(* (SpecDuration).  Here check_in and check_out count seconds.               *)

MinuteSeconds == 60
HourMinutes == 60

\* int(x / d) for d > 0: the quotient cut towards zero
IntOfQuotient(x, d) == IF x >= 0 THEN x \div d ELSE 0 - ((0 - x) \div d)

\* what duration_minutes returns: None, or an int
NoMinutes == [is_none |-> TRUE, value |-> 0]
Minutes(n) == [is_none |-> FALSE, value |-> n]

\* TimeEntry.duration_minutes; a datetime is always truthy
duration_minutes(e) ==
    IF e.check_out # Null
    THEN Minutes(IntOfQuotient(e.check_out - e.check_in, MinuteSeconds))
    ELSE NoMinutes

\* str(n) for n >= 0
RECURSIVE StrNat(_)
StrNat(n) == IF n < 10 THEN <<Digits[n + 1]>> ELSE StrNat(n \div 10) \o <<Digits[(n % 10) + 1]>>

\* f"{n}"
StrInt(n) == IF n < 0 THEN <<"-">> \o StrNat(0 - n) ELSE StrNat(n)

\* f"{n:02d}" for n >= 0
StrInt02d(n) == IF n < 10 THEN <<"0">> \o StrNat(n) ELSE StrNat(n)

Txt_InProgress == <<"I", "n", " ", "p", "r", "o", "g", "r", "e", "s", "s">>

\* The minutes are printed without the leading zero.
duration_display_unpadded(e) ==
    LET minutes == duration_minutes(e)
    IN  IF minutes.is_none THEN Txt_InProgress
        ELSE StrInt(minutes.value \div HourMinutes) \o <<"h", " ">>
             \o StrInt(minutes.value % HourMinutes) \o <<"m">>

\* TimeEntry.duration_display; // and % round towards minus infinity
duration_display(e) ==
    LET minutes == duration_minutes(e)
    IN  IF minutes.is_none THEN Txt_InProgress
        ELSE StrInt(minutes.value \div HourMinutes) \o <<"h", " ">>
             \o StrInt02d(minutes.value % HourMinutes) \o <<"m">>

\* the latest second of the drawn check-ins
MaxStart == 2

\* seconds from check-in to check-out: around a minute, around an hour, 90
\* minutes, ten hours, a day, a hundred hours; and a check-out before the check-in
DurationSamples ==
    {0, 1, 59, 60, 61, 119, 120, 3540, 3599, 3600, 3601, 3660, 5400, 5459, 5460,
     35940, 36000, 86399, 360000, 360060, 0 - 60, 0 - 5400}

InitDuration ==
    /\ InitServer
    /\ \E check_in \in 0..MaxStart :
       \E check_out \in {Null} \cup {check_in + d : d \in DurationSamples} :
           fn = [op |-> "duration_display", check_in |-> check_in, check_out |-> check_out,
                 done |-> FALSE, minutes |-> NoMinutes, display |-> <<>>]

\* the template reads both properties of the entry
EvalDuration ==
    /\ fn.op = "duration_display"
    /\ ~fn.done
    /\ fn' = [fn EXCEPT !.done = TRUE,
                        !.minutes = duration_minutes(fn),
                        !.display = duration_display(fn)]
    /\ UNCHANGED <<entries, attempts, locations, now, last, workers, vendor, time_zone, sessions>>

NextDuration == EvalDuration

SpecDuration == InitDuration /\ [][NextDuration]_vars

\* text reads "<h>h <mm>m": h in decimal without leading zero, mm two digits
ReadsAs(text, h, mm) ==
    \E i \in 2..Len(text) :
        /\ Len(text) = i + 4
        /\ text[i] = "h" /\ text[i + 1] = " " /\ text[i + 4] = "m"
        /\ LET h_text == SubSeq(text, 1, i - 1)
               mm_text == SubSeq(text, i + 2, i + 3)
           IN  /\ AllDigits(h_text) /\ AllDigits(mm_text)
               /\ Len(h_text) = 1 \/ h_text[1] # "0"
               /\ DecimalValue(h_text) = h
               /\ DecimalValue(mm_text) = mm

\* C16: for a closed entry whose check-out is not before its check-in, with m
\* the whole minutes between them, duration_minutes is m and the display
\* reads "<m div 60>h <m mod 60, two digits>m" ("1h 30m" for 90 minutes); for
\* an open entry the display is "In progress" and duration_minutes is None.
C16_DurationDisplay ==
    fn.done =>
        IF fn.check_out = Null
        THEN fn.display = Txt_InProgress /\ fn.minutes = NoMinutes
        ELSE fn.check_out >= fn.check_in =>
                LET m == (fn.check_out - fn.check_in) \div 60
                IN  /\ fn.minutes = Minutes(m)
                    /\ ReadsAs(fn.display, m \div 60, m % 60)
                    /\ m = 90 => fn.display = <<"1", "h", " ", "3", "0", "m">>

\* an entry of 90 minutes and 59 seconds was displayed
C16_Witness ==
    /\ fn.done
    /\ fn.check_out = fn.check_in + 5459
    /\ fn.display = <<"1", "h", " ", "3", "0", "m">>

-----------------------------------------------------------------------------
(* Responses of the clock endpoint (Spec) *)

\* C17: every clock request ends with the page and its message: no exception
\* leaves clock_view.
C17_NoRequestIsFatal ==
    last.user \in Employees => last.exc = "none"

-----------------------------------------------------------------------------
(* views.status_api (SpecStatus) *)

\* datetime.isoformat(): the clock of the model counts ticks, printed in decimal
isoformat(t) == StrNat(t)

\* the JSON object without the key 'open_entry'
NoOpenEntryKey == [check_in |-> <<>>, location |-> NoLocation]

\* status_api answers that an entry is open whatever get_open_entry returned.
status_api_always_open(es, k, t) ==
    [has_open_entry |-> TRUE,
     server_time |-> isoformat(t),
     has_key_open_entry |-> k # 0,
     open_entry |-> IF k # 0
                    THEN [check_in |-> isoformat(es[k].check_in), location |-> es[k].location]
                    ELSE NoOpenEntryKey]

\* the data of status_api where get_open_entry returned the row at position k
\* (0: None); location stands for the name of the Location row with that pk
status_api(es, k, t) ==
    [has_open_entry |-> k # 0,
     server_time |-> isoformat(t),
     has_key_open_entry |-> k # 0,
     open_entry |-> IF k # 0
                    THEN [check_in |-> isoformat(es[k].check_in), location |-> es[k].location]
                    ELSE NoOpenEntryKey]

\* GET of the status endpoint by a logged-in employee
StatusApi(user) ==
    /\ \E k \in get_open_entry(entries, user) :
           fn' = [op |-> "status_api", user |-> user, data |-> status_api(entries, k, now)]
    /\ UNCHANGED <<entries, attempts, locations, now, last, workers, vendor, time_zone, sessions>>

NextStatus ==
    \/ Tick
    \/ \E user \in Employees, action \in {"in", "out"} :
           ClockPost(user, action, WorkplaceMeta)
    \/ \E user \in Employees : StatusApi(user)

SpecStatus == Init /\ [][NextStatus]_vars

\* C18: the status endpoint answers has_open_entry = true exactly when the
\* employee has an open entry, carries open_entry exactly then, with the
\* check-in time and the location of an open entry of the employee, and
\* leaves the tables as they are.
C18_StatusReportsOpenEntry ==
    [][\A user \in Employees :
          StatusApi(user)
             => /\ fn'.data.has_open_entry = (\E i \in 1..Len(entries) :
                       entries[i].user = user /\ entries[i].check_out = Null)
                /\ fn'.data.has_key_open_entry = fn'.data.has_open_entry
                /\ fn'.data.has_open_entry
                     => \E i \in 1..Len(entries) :
                           /\ entries[i].user = user /\ entries[i].check_out = Null
                           /\ DecimalValue(fn'.data.open_entry.check_in) = entries[i].check_in
                           /\ fn'.data.open_entry.location = entries[i].location
                /\ UNCHANGED <<entries, attempts, locations>>]_vars

\* the status of an employee with a closed and an open entry was asked for,
\* the open one begun after the first tick
C18_Witness ==
    /\ fn.op = "status_api"
    /\ fn.data.has_open_entry
    /\ fn.data.open_entry.check_in = <<"1">>
    /\ \E i \in 1..Len(entries) : entries[i].user = fn.user /\ ~is_open(entries[i])

-----------------------------------------------------------------------------
(* Requests without an active location (Spec) *)

\* C19: while no Location row is active, every clock request, whatever its
\* action and address, is answered with the location-not-configured error
\* and leaves entries and attempts as they are.
C19_NoLocationChangesNothing ==
    [][(~\E l \in DOMAIN locations : locations[l].is_active)
          => \A user \in Employees, action \in Actions, meta \in RequestMetas :
                (last'.user = user /\ ClockPost(user, action, meta))
                   => /\ last' = Response(user, Reply("", "NoLocation", "none"))
                      /\ entries' = entries
                      /\ attempts' = attempts]_vars

\* an employee with an open entry was told that no location is configured
C19_Witness ==
    /\ last.error = "NoLocation"
    /\ has_open_entry(entries, last.user)
    /\ ~\E l \in DOMAIN locations : locations[l].is_active

-----------------------------------------------------------------------------
(* Manual entries (SpecAdmin) *)

\* C20: every entry marked manual has notes.
C20_ManualEntriesHaveNotes ==
    \A i \in 1..Len(entries) : entries[i].is_manual => entries[i].notes # <<>>

-----------------------------------------------------------------------------
(* close_forgotten_entries over several days and time zones (SpecClose) *)

\* days the clock of SpecClose covers
MaxDays == 3
LastTick == MaxDays * DayLen - 1

\* offsets of settings.TIME_ZONE: UTC, and zones less than a day east of it
TimeZones == 0..(DayLen - 1)

\* tables the clock requests served up to t leave behind: ana checked in at
\* t1 and perhaps out at t2, and ben perhaps checked in at t2
AnaIn(t1) == do_check_in(<<>>, "ana", LocationPk, Ip_192_168_1_50, t1).entries
AnaInOut(t1, t2) == do_check_out(AnaIn(t1), 1, Ip_192_168_1_50, t2).entries
BenIn(es, t2) == do_check_in(es, "ben", LocationPk, Ip_192_168_1_50, t2).entries
ClockedTables(t) ==
    UNION {{AnaIn(p[1]), AnaInOut(p[1], p[2]), BenIn(AnaIn(p[1]), p[2]),
            BenIn(AnaInOut(p[1], p[2]), p[2])} :
              p \in {q \in (0..t) \X (0..t) : q[1] <= q[2]}}

InitClose ==
    /\ now \in 0..LastTick
    /\ time_zone \in TimeZones
    /\ entries \in {es \in ClockedTables(LastTick) :
                        \A i \in 1..Len(es) : es[i].check_in <= now /\ es[i].check_out <= now}
    /\ attempts = <<>>
    /\ locations = [l \in {LocationPk} |->
                       [is_active |-> TRUE, allowed_ips |-> <<JsonStr(Net_192_168_1_0_24)>>]]
    /\ last = NoRequest
    /\ workers = [w \in Workers |-> Idle]
    /\ vendor = "sqlite"
    /\ sessions = NoSessions
    /\ fn = NoCall

NextClose ==
    \/ Tick
    \/ \E admin \in Admins : CloseForgotten(admin)

SpecClose == InitClose /\ [][NextClose]_vars

\* the calendar day of an instant, and the last tick of that day, on the
\* clocks of the workplace
LocalDate(t) == (t + time_zone) \div DayLen
EndOfLocalDay(t) == LocalDate(t) * DayLen + (DayLen - 1) - time_zone

\* what confirming "close forgotten entries" does to the entries
ClosesAllForgotten ==
    \A admin \in Admins :
        CloseForgotten(admin)
           => /\ Len(entries') = Len(entries)
              /\ \A i \in 1..Len(entries) :
                    /\ ~(is_open(entries'[i])
                          /\ LocalDate(entries'[i].check_in) < LocalDate(now))
                    /\ (is_open(entries[i]) /\ ~is_open(entries'[i]))
                          => /\ entries'[i].check_out = EndOfLocalDay(entries[i].check_in)
                             /\ entries'[i].is_manual
                             /\ entries'[i].modified_by = admin
                    /\ (~is_open(entries[i])
                          \/ LocalDate(entries[i].check_in) = LocalDate(now))
                          => entries'[i] = entries[i]

\* C21: after an administrator confirms closing the forgotten entries, no
\* entry checked in on a day before today is open; every entry closed got the
\* end of its own check-in day as check-out, is manual and modified by that
\* administrator; open entries of today and closed entries are unchanged.
C21_CloseForgottenClosesAll == [][ClosesAllForgotten]_vars

\* the same where the configured time zone is UTC
CloseForgottenClosesAllInUtc == [][time_zone = 0 => ClosesAllForgotten]_vars

-----------------------------------------------------------------------------
(* get_client_ip on drawn headers (SpecClientIp) *)

\* header values as text: "a, b" and " a ,b"
CommaList(a, b) == a \o <<",", " ">> \o b
PaddedList(a, b) == <<" ">> \o a \o <<" ", ",">> \o b

RealIpSamples ==
    {Absent, <<>>, Ip_192_168_1_50, Ip_85_123_45_67, Ip_192_168_1_300, Txt_local}
ForwardedSamples ==
    {Absent, <<>>, Ip_10_0_0_1, Ip_192_168_1_300,
     CommaList(Ip_10_0_0_1, Ip_85_123_45_67),
     PaddedList(Ip_85_123_45_67, Ip_10_0_0_1),
     CommaList(Txt_local, Ip_10_0_0_1)}
RemoteAddrSamples == {Absent, Ip_127_0_0_1, Ip_10_0_0_1}

InitClientIp ==
    /\ InitServer
    /\ \E x_real_ip \in RealIpSamples, x_forwarded_for \in ForwardedSamples,
          remote_addr \in RemoteAddrSamples :
           fn = [op |-> "get_client_ip",
                 meta |-> Meta(x_real_ip, x_forwarded_for, remote_addr),
                 done |-> FALSE, result |-> <<>>]

\* the call returns
EvalGetClientIp ==
    /\ fn.op = "get_client_ip"
    /\ ~fn.done
    /\ fn' = [fn EXCEPT !.done = TRUE, !.result = get_client_ip(fn.meta)]
    /\ UNCHANGED <<entries, attempts, locations, now, last, workers, vendor, time_zone,
                   sessions>>

NextClientIp == EvalGetClientIp

SpecClientIp == InitClientIp /\ [][NextClientIp]_vars

\* the sample texts that are addresses
ValidAddresses == {Ip_192_168_1_50, Ip_85_123_45_67, Ip_10_0_0_1, Ip_127_0_0_1}

\* the first address a sample X-Forwarded-For header names, Absent where it
\* names none
FirstForwarded(header) ==
    IF header = Ip_10_0_0_1 \/ header = CommaList(Ip_10_0_0_1, Ip_85_123_45_67)
    THEN Ip_10_0_0_1
    ELSE IF header = PaddedList(Ip_85_123_45_67, Ip_10_0_0_1) THEN Ip_85_123_45_67
    ELSE Absent

\* C22: the client IP is X-Real-IP when that is a valid address; otherwise
\* the first address of X-Forwarded-For when that is valid; otherwise
\* REMOTE_ADDR, and 0.0.0.0 when REMOTE_ADDR is absent.
C22_ClientIpPriority ==
    (fn.op = "get_client_ip" /\ fn.done)
       => IF fn.meta.HTTP_X_REAL_IP \in ValidAddresses
          THEN fn.result = fn.meta.HTTP_X_REAL_IP
          ELSE IF FirstForwarded(fn.meta.HTTP_X_FORWARDED_FOR) \in ValidAddresses
          THEN fn.result = FirstForwarded(fn.meta.HTTP_X_FORWARDED_FOR)
          ELSE IF fn.meta.REMOTE_ADDR = Absent
          THEN fn.result = Ip_0_0_0_0
          ELSE fn.result = fn.meta.REMOTE_ADDR

\* a valid X-Real-IP won over a valid, different X-Forwarded-For and REMOTE_ADDR
C22_Witness ==
    /\ fn.op = "get_client_ip"
    /\ fn.done
    /\ fn.meta.HTTP_X_REAL_IP = Ip_192_168_1_50
    /\ fn.meta.HTTP_X_FORWARDED_FOR = CommaList(Ip_10_0_0_1, Ip_85_123_45_67)
    /\ fn.meta.REMOTE_ADDR = Ip_127_0_0_1
    /\ fn.result = Ip_192_168_1_50

-----------------------------------------------------------------------------
(* After a check-out (SpecAdmin) *)

\* C23: right after a check-out that reports success, the employee has no
\* open entry.
C23_NoOpenEntryAfterCheckOut ==
    (last.user \in Employees /\ last.success = "ClockedOut")
       => ~has_open_entry(entries, last.user)

-----------------------------------------------------------------------------
(* A bulk close of the administrator overlapping check-outs (SpecBulk).     *)
(* close_forgotten_entries and mark_as_closed run outside a transaction:    *)
(* the loop's query fetches the open rows as instances, and every           *)
(* entry.save() is a statement of its own that writes all columns of the    *)
(* instance and commits.                                                     *)

InitBulk ==
    /\ entries \in {AnaIn(0), BenIn(AnaIn(0), 0)}
    /\ now \in {0, DayLen}
    /\ attempts = <<>>
    /\ locations = [l \in {LocationPk} |->
                       [is_active |-> TRUE, allowed_ips |-> <<JsonStr(Net_192_168_1_0_24)>>]]
    /\ last = NoRequest
    /\ workers = [w \in Workers |-> Idle]
    /\ vendor \in Vendors
    /\ time_zone = 0
    /\ sessions = NoSessions
    /\ fn = NoCall

\* the rows at the positions ks, as a sequence of instances in table order
RECURSIVE Fetched(_, _, _)
Fetched(es, ks, i) ==
    IF i > Len(es) THEN <<>>
    ELSE (IF i \in ks THEN <<es[i]>> ELSE <<>>) \o Fetched(es, ks, i + 1)

\* the query of the loop: `for entry in forgotten` of close_forgotten_entries,
\* `for entry in queryset.filter(check_out__isnull=True)` of mark_as_closed
BulkFetch(w, admin, view, selected) ==
    LET ks == IF view = "close_forgotten_entries" THEN Forgotten(entries, now)
              ELSE {i \in selected : is_open(entries[i])}
        req == [Idle EXCEPT !.user = admin, !.action = view]
    IN  /\ workers[w].pc \in {"idle", "done"}
        /\ view = "mark_as_closed" => selected # {}
        /\ workers' = [workers EXCEPT ![w] =
               IF ks = {} THEN Finish(req, Reply("Closed", "", "none"))
               ELSE [req EXCEPT !.pc = "bulk_save", !.rows = Fetched(entries, ks, 1)]]
        /\ UNCHANGED <<entries, attempts, locations, now, last, vendor, time_zone, sessions,
                       fn>>

\* one turn of the loop: the fields are set on the fetched instance and
\* entry.save() writes it
BulkSave(w) ==
    LET rec == workers[w]
        obj == IF rec.action = "close_forgotten_entries"
               THEN ClosedByAdmin(Head(rec.rows), Txt_AUTO_CLOSED, Txt_AutoCerrado, rec.user)
               ELSE ClosedByAdmin(Head(rec.rows), Txt_ADMIN_CLOSED, Txt_Cerrado, rec.user)
        rest == [rec EXCEPT !.rows = Tail(rec.rows), !.obj = obj]
    IN  /\ rec.pc = "bulk_save"
        /\ entries' = SaveRow(entries, obj)
        /\ workers' = Committed(
               [workers EXCEPT ![w] =
                   IF rest.rows = <<>> THEN Finish(rest, Reply("Closed", "", "none"))
                   ELSE rest], w)
        /\ UNCHANGED <<attempts, locations, now, last, vendor, time_zone, sessions, fn>>

NextBulk ==
    \/ \E w \in Workers, user \in Employees : Receive(w, user, "out", WorkplaceMeta)
    \/ \E w \in Workers : CheckOutGet(w)
    \/ \E w \in Workers : CheckOutSave(w)
    \/ \E w \in Workers, admin \in Admins : BulkFetch(w, admin, "close_forgotten_entries", {})
    \/ \E w \in Workers, admin \in Admins, selected \in SUBSET (1..Len(entries)) :
           BulkFetch(w, admin, "mark_as_closed", selected)
    \/ \E w \in Workers : BulkSave(w)

SpecBulk == InitBulk /\ [][NextBulk]_vars

\* C24: where a bulk close of the administrator overlaps an employee's
\* check-out of the same entry, the check-out time and IP that the successful
\* check-out wrote are not overwritten by the administrator's write.
C24_BulkCloseKeepsCheckOut ==
    [][\A w \in Workers :
          BulkSave(w)
             => \A v \in Workers, i \in 1..Len(entries) :
                   (/\ workers[v].reply.success = "ClockedOut"
                    /\ workers[v].obj.id = entries[i].id
                    /\ entries[i].check_out = workers[v].obj.check_out
                    /\ entries[i].check_out_ip = workers[v].obj.check_out_ip)
                      => /\ entries'[i].check_out = entries[i].check_out
                         /\ entries'[i].check_out_ip = entries[i].check_out_ip]_vars

-----------------------------------------------------------------------------
(* Check-out after check-in (SpecAdmin) *)

\* C25: every entry that has a check-out has it not earlier than its
\* check-in, whoever set it: a check-out, a bulk close, or the
\* administrator's add and change forms.
C25_CheckOutNotBeforeCheckIn ==
    \A i \in 1..Len(entries) :
        ~is_open(entries[i]) => entries[i].check_in <= entries[i].check_out

-----------------------------------------------------------------------------
(* The entries of the other employees (Spec) *)

\* C26: a check-in or check-out request of one employee creates, changes and
\* closes no entry of another employee, and does not change whether another
\* employee has an open entry.
C26_OtherEmployeesUntouched ==
    [][\A user \in Employees, action \in Actions, meta \in RequestMetas :
          (last'.user = user /\ ClockPost(user, action, meta))
             => /\ Len(entries') >= Len(entries)
                /\ \A i \in 1..Len(entries') :
                      IF i <= Len(entries)
                      THEN entries[i].user # user => entries'[i] = entries[i]
                      ELSE entries'[i].user = user
                /\ \A other \in Employees \ {user} :
                      has_open_entry(entries', other) = has_open_entry(entries, other)]_vars

\* ben has checked out while ana's entry is open
C26_Witness ==
    /\ last.user = "ben"
    /\ last.success = "ClockedOut"
    /\ has_open_entry(entries, "ana")
    /\ ~has_open_entry(entries, "ben")

-----------------------------------------------------------------------------
(* Sessions: login_view, logout_view and @login_required (SpecLogin) *)

\* the accounts of auth.User: the employees, and an account that was disabled
Disabled == "eva"
Pin_ana == "1111"
Pin_ben == "2222"
Pin_eva == "3333"
check_password(user, password) ==
    \/ user = "ana" /\ password = Pin_ana
    \/ user = "ben" /\ password = Pin_ben
    \/ user = Disabled /\ password = Pin_eva
is_active(user) == user \in Employees

\* what is typed into the form
Txt_ana == <<"a", "n", "a">>
Txt_ben == <<"b", "e", "n">>
Txt_eva == <<"e", "v", "a">>
UsernameTexts == {<<>>, Txt_ana, <<" ">> \o Txt_ana \o <<" ">>, Txt_ben, Txt_eva}
Passwords == {"", Pin_ana, Pin_ben, Pin_eva}

\* User.objects.get_by_natural_key(username)
UserNamed(username) ==
    IF username = Txt_ana THEN "ana"
    ELSE IF username = Txt_ben THEN "ben"
    ELSE IF username = Txt_eva THEN Disabled
    ELSE NoUser

\* django.contrib.auth.authenticate with ModelBackend: None (NoUser) for an
\* unknown name, a wrong password or an account that is not active
authenticate(username, password) ==
    LET user == UserNamed(username)
    IN  IF user # NoUser /\ check_password(user, password) /\ is_active(user)
        THEN user ELSE NoUser

\* login_view logs the named account in whatever the password.
LoginPostNoPasswordCheck(client, typed, password) ==
    LET username == Strip(typed)
        user == UserNamed(username)
    IN  /\ IF sessions[client] # NoUser
           THEN /\ last' = Response(sessions[client], Reply("", "", "none"))
                /\ UNCHANGED sessions
           ELSE IF username = <<>> \/ password = ""
           THEN /\ last' = Response(NoUser, Reply("", "EnterUsernameAndPin", "none"))
                /\ UNCHANGED sessions
           ELSE IF user # NoUser
           THEN /\ sessions' = [sessions EXCEPT ![client] = user]
                /\ last' = Response(user, Reply("LoggedIn", "", "none"))
           ELSE /\ last' = Response(NoUser, Reply("", "InvalidUsernameOrPin", "none"))
                /\ UNCHANGED sessions
        /\ UNCHANGED <<entries, attempts, locations, now, workers, vendor, time_zone, fn>>

\* login_view, POST
LoginPost(client, typed, password) ==
    LET username == Strip(typed)
        user == authenticate(username, password)
    IN  /\ IF sessions[client] # NoUser
           THEN /\ last' = Response(sessions[client], Reply("", "", "none"))
                /\ UNCHANGED sessions
           ELSE IF username = <<>> \/ password = ""
           THEN /\ last' = Response(NoUser, Reply("", "EnterUsernameAndPin", "none"))
                /\ UNCHANGED sessions
           ELSE IF user # NoUser
           THEN IF is_active(user)
                THEN /\ sessions' = [sessions EXCEPT ![client] = user]
                     /\ last' = Response(user, Reply("LoggedIn", "", "none"))
                ELSE /\ last' = Response(NoUser, Reply("", "AccountDisabled", "none"))
                     /\ UNCHANGED sessions
           ELSE /\ last' = Response(NoUser, Reply("", "InvalidUsernameOrPin", "none"))
                /\ UNCHANGED sessions
        /\ UNCHANGED <<entries, attempts, locations, now, workers, vendor, time_zone, fn>>

\* logout_view
Logout(client) ==
    /\ sessions' = [sessions EXCEPT ![client] = NoUser]
    /\ last' = Response(NoUser, Reply("", "", "none"))
    /\ UNCHANGED <<entries, attempts, locations, now, workers, vendor, time_zone, fn>>

\* a POST to clock_view from a browser: @login_required redirects the
\* anonymous one to the login page, the view serves request.user
ClockRequest(client, action, meta) ==
    IF sessions[client] = NoUser
    THEN /\ last' = Response(NoUser, Reply("", "LoginRequired", "none"))
         /\ UNCHANGED <<entries, attempts, locations, now, workers, vendor, time_zone,
                        sessions, fn>>
    ELSE ClockPost(sessions[client], action, meta)

NextLogin ==
    \/ \E client \in Clients, typed \in UsernameTexts, password \in Passwords :
           LoginPost(client, typed, password)
    \/ \E client \in Clients : Logout(client)
    \/ \E client \in Clients, action \in {"in", "out"}, meta \in RequestMetas :
           ClockRequest(client, action, meta)

SpecLogin == Init /\ [][NextLogin]_vars

\* the name and PIN of each account, as typed
Credentials(user) ==
    IF user = "ana" THEN {Txt_ana, <<" ">> \o Txt_ana \o <<" ">>} \X {Pin_ana}
    ELSE IF user = "ben" THEN {Txt_ben} \X {Pin_ben}
    ELSE {}

\* every row that the step added or changed belongs to user
OnlyRowsOf(user) ==
    /\ Len(entries') >= Len(entries)
    /\ Len(attempts') >= Len(attempts)
    /\ \A i \in 1..Len(entries') :
          (i > Len(entries) \/ entries'[i] # entries[i]) => entries'[i].user = user
    /\ \A i \in 1..Len(attempts') :
          IF i <= Len(attempts) THEN attempts'[i] = attempts[i]
          ELSE attempts'[i].user = user

\* C27: a clock request of a browser that is not logged in changes no
\* TimeEntry and records no FailedClockAttempt; a clock request takes effect
\* only in a session opened by a successful login and not yet closed by a
\* logout, and then on behalf of the employee who logged in.
C27_OnlyLoggedInClientsClock ==
    [][/\ \A client \in Clients, action \in {"in", "out"}, meta \in RequestMetas :
             ClockRequest(client, action, meta)
                => IF sessions[client] = NoUser
                   THEN entries' = entries /\ attempts' = attempts
                   ELSE last'.user = sessions[client] /\ OnlyRowsOf(sessions[client])
       /\ \A client \in Clients :
             (sessions'[client] # sessions[client] /\ sessions'[client] # NoUser)
                => /\ sessions[client] = NoUser
                   /\ sessions'[client] \in Employees
                   /\ \E typed \in UsernameTexts, password \in Passwords :
                         /\ LoginPost(client, typed, password)
                         /\ <<typed, password>> \in Credentials(sessions'[client])
       /\ \A client \in Clients : Logout(client) => sessions'[client] = NoUser]_vars

\* a browser that is not logged in was sent to the login page while another
\* one is logged in and has clocked in
C27_Witness ==
    /\ last.error = "LoginRequired"
    /\ \E client \in Clients : /\ sessions[client] \in Employees
                               /\ has_open_entry(entries, sessions[client])
    /\ \E client \in Clients : sessions[client] = NoUser

====
